---- MODULE Spec2Model ----
(***************************************************************************)
(* Model of the CR310 datalogger API (air-predict-api): the ingestion      *)
(* pipeline of main.py / validator.py / models.py / preprocessor.py and    *)
(* the MongoDB collection of database.py with its query path.              *)
(*                                                                         *)
(* Conventions of the model                                                *)
(*  - a string is a sequence of one-character strings;                     *)
(*  - a number is an integer count of thousandths (25.43 is 25430);        *)
(*  - a JSON value is a record [k, n, s]: k its JSON kind, n its number    *)
(*    (0 when it has none), s its string (<<>> when it has none).          *)
(***************************************************************************)
EXTENDS Integers, Sequences, FiniteSets, TLC

Scale == 10 * 100   \* thousandths per unit

-----------------------------------------------------------------------------
(* Characters and strings                                                  *)

Digits == <<"0", "1", "2", "3", "4", "5", "6", "7", "8", "9">>

LowerCase == <<"a", "b", "c", "d", "e", "f", "g", "h", "i", "j", "k", "l", "m",
               "n", "o", "p", "q", "r", "s", "t", "u", "v", "w", "x", "y", "z">>

UpperCase == <<"A", "B", "C", "D", "E", "F", "G", "H", "I", "J", "K", "L", "M",
               "N", "O", "P", "Q", "R", "S", "T", "U", "V", "W", "X", "Y", "Z">>

\* The characters of the model in code-point order (the order MongoDB's
\* default binary string comparison uses).
Ascii == <<"\t", "\n", " ", "-", "/">> \o Digits \o <<":">> \o UpperCase
         \o <<"_">> \o LowerCase

IndexOf(seq, c) == CHOOSE i \in 1..Len(seq) : seq[i] = c

IsIn(seq, c) == \E i \in 1..Len(seq) : seq[i] = c

Code(c) == IndexOf(Ascii, c)

Whitespace == {" ", "\t", "\n"}

\* The character U+0138 (LATIN SMALL LETTER KRA), written by its code point:
\* a lower-case letter (str.islower() is True) that has no upper-case form,
\* so that str.upper() leaves it as it is
Kra == "U+0138"

IsDigit(c) == IsIn(Digits, c)

DigitVal(c) == IndexOf(Digits, c) - 1

\* str.upper()
UpperChar(c) == IF IsIn(LowerCase, c) THEN UpperCase[IndexOf(LowerCase, c)] ELSE c

Upper(s) == [i \in 1..Len(s) |-> UpperChar(s[i])]

\* str.strip(): drops leading and trailing whitespace
Strip(s) ==
    LET keep == {i \in 1..Len(s) : s[i] \notin Whitespace}
    IN IF keep = {} THEN <<>>
       ELSE LET lo == CHOOSE i \in keep : \A j \in keep : i <= j
                hi == CHOOSE i \in keep : \A j \in keep : j <= i
            IN SubSeq(s, lo, hi)

\* a < b for strings, compared code point by code point
StrLess(a, b) ==
    \E i \in 1..(Len(b)) :
        /\ \A j \in 1..(i - 1) : j <= Len(a) /\ a[j] = b[j]
        /\ \/ i = Len(a) + 1
           \/ i <= Len(a) /\ Code(a[i]) < Code(b[i])

StrLeq(a, b) == a = b \/ StrLess(a, b)

-----------------------------------------------------------------------------
(* datetime.strptime(v, '%Y-%m-%d %H:%M:%S')                                *)

AllDigits(s) == \A i \in 1..Len(s) : IsDigit(s[i])

\* value of a run of one or two digits
Num(s) == IF Len(s) = 1 THEN DigitVal(s[1])
          ELSE 10 * DigitVal(s[1]) + DigitVal(s[2])

Num4(s) == 1000 * DigitVal(s[1]) + 100 * DigitVal(s[2])
           + 10 * DigitVal(s[3]) + DigitVal(s[4])

\* %m : 1[0-2]|0[1-9]|[1-9]
IsMonth(s) == Len(s) \in {1, 2} /\ AllDigits(s) /\ Num(s) \in 1..12

\* %d : 3[0-1]|[1-2]\d|0[1-9]|[1-9]| [1-9]
IsDay(s) ==
    \/ Len(s) \in {1, 2} /\ AllDigits(s) /\ Num(s) \in 1..31
    \/ Len(s) = 2 /\ s[1] = " " /\ IsDigit(s[2]) /\ DigitVal(s[2]) \in 1..9

DayVal(s) == IF s[1] = " " THEN DigitVal(s[2]) ELSE Num(s)

\* %H : 2[0-3]|[0-1]\d|\d
IsHour(s) == Len(s) \in {1, 2} /\ AllDigits(s) /\ Num(s) \in 0..23

\* %M : [0-5]\d|\d
IsMinute(s) == Len(s) \in {1, 2} /\ AllDigits(s) /\ Num(s) \in 0..59

\* %S : 6[0-1]|[0-5]\d|\d
IsSecond(s) == Len(s) \in {1, 2} /\ AllDigits(s) /\ Num(s) \in 0..61

IsLeap(y) == (y % 4 = 0 /\ y % 100 # 0) \/ y % 400 = 0

DaysInMonth(y, m) ==
    IF m = 2 THEN (IF IsLeap(y) THEN 29 ELSE 28)
    ELSE IF m \in {4, 6, 9, 11} THEN 30 ELSE 31

\* The splits of s into year - month - day <whitespace> hour : minute : second
\* that the format's regular expression matches: <<a, b, c, d, e>> are the
\* positions of the two '-', the last whitespace character and the two ':'.
\* The year is four digits and every other field one or two characters, so
\* each separator is 2 or 3 places after the field's start.
Splits(s) ==
    {p \in {<<5, b, c, c + d, c + d + e>> :
                b \in {7, 8}, c \in 9..Len(s), d \in {2, 3}, e \in {2, 3}} :
        /\ p[2] < p[3] /\ p[5] < Len(s)
        /\ AllDigits(SubSeq(s, 1, 4))
        /\ s[p[1]] = "-" /\ s[p[2]] = "-" /\ s[p[4]] = ":" /\ s[p[5]] = ":"
        /\ IsMonth(SubSeq(s, p[1] + 1, p[2] - 1))
        /\ \E w \in (p[2] + 1)..p[3] :
              /\ \A i \in w..p[3] : s[i] \in Whitespace
              /\ IsDay(SubSeq(s, p[2] + 1, w - 1))
        /\ IsHour(SubSeq(s, p[3] + 1, p[4] - 1))
        /\ IsMinute(SubSeq(s, p[4] + 1, p[5] - 1))
        /\ IsSecond(SubSeq(s, p[5] + 1, Len(s)))}

\* The parsed datetime <<Y, m, d, H, M, S>> of a split
Parsed(s, p) ==
    LET w == CHOOSE w \in (p[2] + 1)..p[3] :
                 /\ \A i \in w..p[3] : s[i] \in Whitespace
                 /\ IsDay(SubSeq(s, p[2] + 1, w - 1))
    IN <<Num4(SubSeq(s, 1, 4)),
         Num(SubSeq(s, p[1] + 1, p[2] - 1)),
         DayVal(SubSeq(s, p[2] + 1, w - 1)),
         Num(SubSeq(s, p[3] + 1, p[4] - 1)),
         Num(SubSeq(s, p[4] + 1, p[5] - 1)),
         Num(SubSeq(s, p[5] + 1, Len(s)))>>

\* The set of datetimes strptime returns for s: empty when it raises
\* ValueError (no match, unconverted data, or a field datetime() refuses).
strptime(s) ==
    {dt \in {Parsed(s, p) : p \in Splits(s)} :
        /\ dt[1] >= 1
        /\ dt[3] <= DaysInMonth(dt[1], dt[2])
        /\ dt[6] <= 59}

-----------------------------------------------------------------------------
(* JSON values and raw readings                                            *)

NumV(n) == [k |-> "num", n |-> n, s |-> <<>>]
StrV(s) == [k |-> "str", n |-> 0, s |-> s]
BoolV(b) == [k |-> "bool", n |-> IF b THEN 1 ELSE 0, s |-> <<>>]
NullV == [k |-> "null", n |-> 0, s |-> <<>>]
ListV == [k |-> "list", n |-> 0, s |-> <<>>]
ObjV == [k |-> "obj", n |-> 0, s |-> <<>>]

\* float('nan'), which json.loads yields for the literal NaN: a value apart
\* from the thousandths of every number of the model, that every comparison
\* below treats as IEEE 754 does (each of <, >, >= with a NaN is false)
NaN == 0 - 1000000 * Scale

NaNV == NumV(NaN)

\* x < y, x > y and x >= y on floats
Less(x, y) == x # NaN /\ y # NaN /\ x < y
Greater(x, y) == x # NaN /\ y # NaN /\ x > y
GreaterEq(x, y) == x # NaN /\ y # NaN /\ x >= y

\* isinstance(v, (int, float)): bool is a subclass of int
IsNumeric(v) == v.k \in {"num", "bool"}

\* isinstance(v, str)
IsStr(v) == v.k = "str"

\* float(v) of a numeric value, in thousandths
Float(v) == IF v.k = "bool" THEN v.n * Scale ELSE v.n

-----------------------------------------------------------------------------
(* validator.py                                                            *)

\* ReadingValidator.VALID_RANGES, in the dictionary's order
ChannelOrder == <<"SO2_ppb", "H2S_ppb", "Reaction_Temp", "IZS_Temp", "PMT_Temp",
                  "SampleFlow", "Pressure", "UVLampIntensity", "Box_Temp",
                  "HVPS_V", "Conv_Temp", "Ozone_flow">>

Channels == {ChannelOrder[i] : i \in 1..Len(ChannelOrder)}

VALID_RANGES ==
    [c \in Channels |->
        CASE c = "SO2_ppb" -> <<0, 10000>>
          [] c \in {"H2S_ppb", "SampleFlow", "UVLampIntensity", "HVPS_V", "Ozone_flow"}
                -> <<0, 1000>>
          [] c = "Pressure" -> <<0, 100>>
          [] OTHER -> <<20, 60>>]

required_fields == <<"equipo">> \o ChannelOrder \o <<"timestamp">>

RequiredSet == Channels \cup {"equipo", "timestamp"}

\* Mutant: only the first absent field is reported
missing_fields_First(payload) ==
    SubSeq(SelectSeq(required_fields, LAMBDA f : f \notin DOMAIN payload), 1, 1)

\* validate_required_fields: the absent required fields, in order
missing_fields(payload) ==
    SelectSeq(required_fields, LAMBDA f : f \notin DOMAIN payload)

\* Mutant: the type check lets a null channel pass
type_errors_SkipNull(payload) ==
    SelectSeq(ChannelOrder, LAMBDA f : /\ f \in DOMAIN payload
                                       /\ ~IsNumeric(payload[f])
                                       /\ payload[f] # NullV)
    \o (IF "equipo" \in DOMAIN payload /\ ~IsStr(payload["equipo"]) THEN <<"equipo">> ELSE <<>>)
    \o (IF "timestamp" \in DOMAIN payload /\ ~IsStr(payload["timestamp"])
        THEN <<"timestamp">> ELSE <<>>)

\* validate_json_structure: the fields whose type is refused, in the order the
\* checks run; the message names the first.
type_errors(payload) ==
    SelectSeq(ChannelOrder, LAMBDA f : f \in DOMAIN payload /\ ~IsNumeric(payload[f]))
    \o (IF "equipo" \in DOMAIN payload /\ ~IsStr(payload["equipo"]) THEN <<"equipo">> ELSE <<>>)
    \o (IF "timestamp" \in DOMAIN payload /\ ~IsStr(payload["timestamp"])
        THEN <<"timestamp">> ELSE <<>>)

-----------------------------------------------------------------------------
(* models.py                                                               *)

\* The channels CR310Reading declares with ge=0
GeZero == {"SO2_ppb", "H2S_ppb", "SampleFlow", "UVLampIntensity", "HVPS_V", "Ozone_flow"}

\* CR310Reading.validate_timestamp
validate_timestamp(v) == strptime(v) # {}

\* CR310Reading.validate_equipo
validate_equipo(v) == ~(v = <<>> \/ Len(Strip(v)) = 0)

\* CR310Reading(**data) on a reading with every required field present and of
\* the validated types: the fields of the ValidationError, in field order
\* (empty when the model is built). Fields the model does not declare are ignored.
model_errors(payload) ==
    (IF validate_equipo(payload["equipo"].s) THEN <<>> ELSE <<"equipo">>)
    \o SelectSeq(ChannelOrder,
                 LAMBDA f : f \in GeZero /\ ~GreaterEq(Float(payload[f]), 0))
    \o (IF validate_timestamp(payload["timestamp"].s) THEN <<>> ELSE <<"timestamp">>)

\* The CR310Reading built: equipo stripped, channels as floats
CR310Reading(payload) ==
    [equipo |-> Strip(payload["equipo"].s),
     timestamp |-> payload["timestamp"].s,
     ch |-> [c \in Channels |-> Float(payload[c])]]

\* validate_ranges: the violations <<field, value, min, max>> in VALID_RANGES order
out_of_range(reading) ==
    LET viol == SelectSeq(ChannelOrder,
                    LAMBDA f : \/ Less(reading.ch[f], VALID_RANGES[f][1] * Scale)
                               \/ Greater(reading.ch[f], VALID_RANGES[f][2] * Scale))
    IN [i \in 1..Len(viol) |->
            <<viol[i], reading.ch[viol[i]], VALID_RANGES[viol[i]][1],
              VALID_RANGES[viol[i]][2]>>]

-----------------------------------------------------------------------------
(* Responses: the HTTP status code, the kind of its message, and what the  *)
(* message lists                                                           *)

Response(code, kind, fields, ranges) ==
    [code |-> code, kind |-> kind, fields |-> fields, ranges |-> ranges]

NoResponse == Response(0, "none", <<>>, <<>>)

Stored == Response(200, "Reading stored successfully", <<>>, <<>>)

Rejected(kind) == Response(400, kind, <<>>, <<>>)

ServerError(kind) == Response(500, kind, <<>>, <<>>)

\* Mutant: validate_ranges runs before CR310Reading(**data)
validate_local_RangesFirst(payload) ==
    IF missing_fields(payload) # <<>>
    THEN Response(400, "Missing required fields", missing_fields(payload), <<>>)
    ELSE IF type_errors(payload) # <<>>
    THEN Response(400, IF Head(type_errors(payload)) \in Channels
                       THEN "must be numeric" ELSE "must be a string",
                  <<Head(type_errors(payload))>>, <<>>)
    ELSE IF out_of_range(CR310Reading(payload)) # <<>>
    THEN Response(400, "Values out of range", <<>>, out_of_range(CR310Reading(payload)))
    ELSE IF model_errors(payload) # <<>>
    THEN Response(400, "Validation error", model_errors(payload), <<>>)
    ELSE NoResponse

\* validate_reading up to (not including) the duplicate check: the rejection,
\* or NoResponse when every check passes
validate_local(payload) ==
    IF missing_fields(payload) # <<>>
    THEN Response(400, "Missing required fields", missing_fields(payload), <<>>)
    ELSE IF type_errors(payload) # <<>>
    THEN Response(400, IF Head(type_errors(payload)) \in Channels
                       THEN "must be numeric" ELSE "must be a string",
                  <<Head(type_errors(payload))>>, <<>>)
    ELSE IF model_errors(payload) # <<>>
    THEN Response(400, "Validation error", model_errors(payload), <<>>)
    ELSE IF out_of_range(CR310Reading(payload)) # <<>>
    THEN Response(400, "Values out of range", <<>>, out_of_range(CR310Reading(payload)))
    ELSE NoResponse

\* The stages validate_reading runs before the duplicate check
LocalStages(d) ==
    IF missing_fields(d) # <<>> THEN <<"required">>
    ELSE IF type_errors(d) # <<>> THEN <<"required", "types">>
    ELSE IF model_errors(d) # <<>> THEN <<"required", "types", "format">>
    ELSE <<"required", "types", "format", "ranges">>

-----------------------------------------------------------------------------
(* preprocessor.py                                                         *)

\* round(x, 2) of a float given in thousandths: to the nearest hundredth, a
\* tie to the even hundredth. (A float is a tie only when it is a multiple of
\* 1/8; the readings of the model have no other value ending in 5 thousandths.)
\* Mutant: truncation to 2 decimals
Round2_Truncate(x) == IF x = NaN THEN NaN ELSE 10 * (x \div 10)

\* round(x, 2) of a value given in thousandths: to the nearest hundredth, a
\* tie (exact in binary for the ties of the model) to the even one;
\* round(nan, 2) is nan
Round2(x) ==
    LET q == x \div 10
        r == x % 10
    IN IF x = NaN THEN NaN
       ELSE IF r < 5 THEN 10 * q
       ELSE IF r > 5 THEN 10 * (q + 1)
       ELSE IF q % 2 = 0 THEN 10 * q ELSE 10 * (q + 1)

\* Mutant: a source the caller supplies is kept
clean_reading_KeepSource(payload) ==
    IF \/ ~({"equipo", "timestamp"} \subseteq DOMAIN payload)
       \/ ~IsStr(payload["equipo"]) \/ ~IsStr(payload["timestamp"])
       \/ strptime(payload["timestamp"].s) = {}
       \/ \E c \in Channels : c \notin DOMAIN payload \/ ~IsNumeric(payload[c])
    THEN {}
    ELSE {[equipo |-> Upper(Strip(payload["equipo"].s)),
           timestamp |-> payload["timestamp"].s,
           timestamp_dt |-> CHOOSE dt \in strptime(payload["timestamp"].s) : TRUE,
           ch |-> [c \in Channels |-> Round2(Float(payload[c]))],
           created_at |-> "utcnow",
           source |-> IF "source" \in DOMAIN payload THEN "caller" ELSE "CR310"]}

\* Mutant: equipo is upper-cased but not stripped
clean_reading_NoStrip(payload) ==
    IF \/ ~({"equipo", "timestamp"} \subseteq DOMAIN payload)
       \/ ~IsStr(payload["equipo"]) \/ ~IsStr(payload["timestamp"])
       \/ strptime(payload["timestamp"].s) = {}
       \/ \E c \in Channels : c \notin DOMAIN payload \/ ~IsNumeric(payload[c])
    THEN {}
    ELSE {[equipo |-> Upper(payload["equipo"].s),
           timestamp |-> payload["timestamp"].s,
           timestamp_dt |-> CHOOSE dt \in strptime(payload["timestamp"].s) : TRUE,
           ch |-> [c \in Channels |-> Round2(Float(payload[c]))],
           created_at |-> "utcnow",
           source |-> "CR310"]}

\* Mutant: equipo is stripped but not upper-cased
clean_reading_NoUpper(payload) ==
    IF \/ ~({"equipo", "timestamp"} \subseteq DOMAIN payload)
       \/ ~IsStr(payload["equipo"]) \/ ~IsStr(payload["timestamp"])
       \/ strptime(payload["timestamp"].s) = {}
       \/ \E c \in Channels : c \notin DOMAIN payload \/ ~IsNumeric(payload[c])
    THEN {}
    ELSE {[equipo |-> Strip(payload["equipo"].s),
           timestamp |-> payload["timestamp"].s,
           timestamp_dt |-> CHOOSE dt \in strptime(payload["timestamp"].s) : TRUE,
           ch |-> [c \in Channels |-> Round2(Float(payload[c]))],
           created_at |-> "utcnow",
           source |-> "CR310"]}

\* clean_reading: {} when it returns None, else the set holding the cleaned
\* dict. data.get(field) is None for an absent or null channel; float() raises
\* for a string or a list.
clean_reading(payload) ==
    IF \/ ~({"equipo", "timestamp"} \subseteq DOMAIN payload)
       \/ ~IsStr(payload["equipo"]) \/ ~IsStr(payload["timestamp"])
       \/ strptime(payload["timestamp"].s) = {}
       \/ \E c \in Channels : c \notin DOMAIN payload \/ ~IsNumeric(payload[c])
    THEN {}
    ELSE {[equipo |-> Upper(Strip(payload["equipo"].s)),
           timestamp |-> payload["timestamp"].s,
           timestamp_dt |-> CHOOSE dt \in strptime(payload["timestamp"].s) : TRUE,
           ch |-> [c \in Channels |-> Round2(Float(payload[c]))],
           created_at |-> "utcnow",
           source |-> "CR310"]}

\* The temperature channels in the order of the list `temps`
TempOrder == <<"Reaction_Temp", "IZS_Temp", "PMT_Temp", "Box_Temp", "Conv_Temp">>

TempFields == {"Reaction_Temp", "IZS_Temp", "PMT_Temp", "Box_Temp", "Conv_Temp"}

\* Python's max and min of a non-empty list: the first item, replaced by each
\* later item that compares greater (less) than the one held
RECURSIVE max(_)
max(temps) ==
    IF Len(temps) = 1 THEN temps[1]
    ELSE LET held_max == max(SubSeq(temps, 1, Len(temps) - 1))
         IN IF Greater(temps[Len(temps)], held_max) THEN temps[Len(temps)] ELSE held_max

RECURSIVE min(_)
min(temps) ==
    IF Len(temps) = 1 THEN temps[1]
    ELSE LET held_min == min(SubSeq(temps, 1, Len(temps) - 1))
         IN IF Less(temps[Len(temps)], held_min) THEN temps[Len(temps)] ELSE held_min

\* The minima m (in hundredths) for which the float subtraction
\* (m + 30.00) - m exceeds 30: there the doubles nearest to the two decimals
\* differ by 30.000000000000004. Every other pair of two-decimal values in
\* [20, 60] subtracts to more than 30 exactly when the decimals do.
FloatDiffAbove30 ==
    {2002, 2006, 2009, 2013, 2020, 2024, 2027, 2031, 2034, 2038, 2045, 2049,
     2052, 2056, 2059, 2063, 2070, 2074, 2077, 2081, 2084, 2088, 2095, 2099,
     2102, 2106, 2109, 2113, 2120, 2124, 2127, 2131, 2134, 2138, 2145, 2149,
     2152, 2156, 2159, 2163, 2170, 2174, 2177, 2181, 2184, 2188, 2195, 2199,
     2202, 2206, 2209, 2213, 2220, 2224, 2227, 2231, 2234, 2238, 2245, 2249,
     2252, 2256, 2259, 2263, 2270, 2274, 2277, 2281, 2284, 2288, 2295, 2299,
     2302, 2306, 2309, 2313, 2320, 2324, 2327, 2331, 2334, 2338, 2345, 2349,
     2352, 2356, 2359, 2363, 2370, 2374, 2377, 2381, 2384, 2388, 2395, 2399,
     2402, 2406, 2409, 2413, 2420, 2424, 2427, 2431, 2434, 2438, 2445, 2449,
     2452, 2456, 2459, 2463, 2470, 2474, 2477, 2481, 2484, 2488, 2495, 2499,
     2502, 2506, 2509, 2513, 2520, 2524, 2527, 2531, 2534, 2538, 2545, 2549,
     2552, 2556, 2559, 2563, 2570, 2574, 2577, 2581, 2584, 2588, 2595, 2599,
     2602, 2606, 2609, 2613, 2620, 2624, 2627, 2631, 2634, 2638, 2645, 2649,
     2652, 2656, 2659, 2663, 2670, 2674, 2677, 2681, 2684, 2688, 2695, 2699,
     2702, 2706, 2709, 2713, 2720, 2724, 2727, 2731, 2734, 2738, 2745, 2749,
     2752, 2756, 2759, 2763, 2770, 2774, 2777, 2781, 2784, 2788, 2795, 2799,
     2802, 2806, 2809, 2813, 2820, 2824, 2827, 2831, 2834, 2838, 2845, 2849,
     2852, 2856, 2859, 2863, 2870, 2874, 2877, 2881, 2884, 2888, 2895, 2899,
     2902, 2906, 2909, 2913, 2920, 2924, 2927, 2931, 2934, 2938, 2945, 2949,
     2952, 2956, 2959, 2963, 2970, 2974, 2977, 2981, 2984, 2988, 2995, 2999}

\* Mutant: the temperature check accepts every reading
remove_inconsistent_values_Off(doc) == TRUE

\* remove_inconsistent_values: max(temps) - min(temps) > 30 on the cleaned floats
remove_inconsistent_values(doc) ==
    LET temps == [i \in 1..Len(TempOrder) |-> doc.ch[TempOrder[i]]]
        temp_range == IF max(temps) = NaN \/ min(temps) = NaN THEN NaN
                      ELSE max(temps) - min(temps)
    IN ~(\/ Greater(temp_range, 30 * Scale)
         \/ temp_range = 30 * Scale /\ (min(temps) \div 10) \in FloatDiffAbove30)

-----------------------------------------------------------------------------
(* The readings clients submit                                             *)

TS1 == <<"2", "0", "2", "5", "-", "1", "0", "-", "2", "7", " ",
         "1", "8", ":", "3", "0", ":", "0", "0">>

TS2 == <<"2", "0", "2", "5", "-", "1", "0", "-", "2", "7", " ",
         "1", "8", ":", "3", "0", ":", "0", "1">>

T101 == <<"T", "1", "0", "1">>

\* The valid reading of the test fixtures (test_api.py, valid_reading_t101)
Base ==
    [f \in RequiredSet |->
        CASE f = "equipo" -> StrV(T101)
          [] f = "timestamp" -> StrV(TS1)
          [] f = "SO2_ppb" -> NumV(25430)
          [] f = "H2S_ppb" -> NumV(2180)
          [] f = "Reaction_Temp" -> NumV(35000)
          [] f = "IZS_Temp" -> NumV(34200)
          [] f = "PMT_Temp" -> NumV(36100)
          [] f = "SampleFlow" -> NumV(452300)
          [] f = "Pressure" -> NumV(29760)
          [] f = "UVLampIntensity" -> NumV(403500)
          [] f = "Box_Temp" -> NumV(33700)
          [] f = "HVPS_V" -> NumV(671200)
          [] f = "Conv_Temp" -> NumV(35900)
          [] f = "Ozone_flow" -> NumV(480500)]

\* d with the fields of the function `changes` set or added
With(d, changes) ==
    [f \in DOMAIN d \cup DOMAIN changes |->
        IF f \in DOMAIN changes THEN changes[f] ELSE d[f]]

\* d without the fields of the set `gone`
Without(d, gone) == [f \in DOMAIN d \ gone |-> d[f]]

Set1(f, v) == [x \in {f} |-> v]

\* The same equipo in lower case with leading whitespace, and channels with
\* three decimals (SO2 25.125, H2S 2.988)
Variant ==
    With(Base, [equipo |-> StrV(<<" ", "t", "1", "0", "1">>),
                SO2_ppb |-> NumV(25125), H2S_ppb |-> NumV(2988)])

\* Another timestamp
Later == With(Base, Set1("timestamp", StrV(TS2)))

\* Temperatures 25.000 .. 55.004: more than 30 apart as submitted
Spread30 ==
    With(Base, [equipo |-> StrV(<<"T", "1", "0", "2">>),
                Reaction_Temp |-> NumV(25000), Box_Temp |-> NumV(55004)])

\* Temperatures 20 .. 60, each within its range
Spread40 == With(Base, [Reaction_Temp |-> NumV(20000), Box_Temp |-> NumV(60000)])

\* Temperatures 20.02 .. 50.02: 30.00 apart, 30.000000000000004 as floats
SpreadFloat == With(Base, [Reaction_Temp |-> NumV(20020), Box_Temp |-> NumV(50020)])

\* Reaction_Temp NaN beside temperatures 20 and 60
SpreadNaN ==
    With(Base, [Reaction_Temp |-> NaNV, IZS_Temp |-> NumV(20000), Box_Temp |-> NumV(60000)])

\* SO2 above its range (test_api.py, reading_out_of_range)
TooHigh == With(Base, Set1("SO2_ppb", NumV(99999000)))

\* Only equipo, SO2_ppb and timestamp (test_api.py, reading_missing_fields)
Partial == Without(Base, Channels \ {"SO2_ppb"})

\* The readings of the concurrent specification
Requests == {Base, Variant, Spread30, Spread40, SpreadFloat, SpreadNaN, TooHigh}

\* A reading whose every present field a later check refuses: equipo not a
\* string, a channel a string, a channel negative, a channel above its range,
\* a timestamp that is no date
Bad ==
    With(Base, [f \in {"equipo", "SO2_ppb", "H2S_ppb", "Pressure", "timestamp"} |->
                   CASE f = "equipo" -> NumV(101 * Scale)
                     [] f = "SO2_ppb" -> StrV(<<"x">>)
                     [] f = "H2S_ppb" -> NumV(0 - Scale)
                     [] f = "Pressure" -> NumV(101 * Scale)
                     [] f = "timestamp" -> StrV(<<"n", "o", "w">>)])

MaxMissing == 2

\* Readings with up to MaxMissing required fields absent, with eleven absent,
\* and the empty body
MissingRequests ==
    {Without(b, A) : b \in {Base, Bad},
                     A \in {X \in SUBSET RequiredSet :
                               Cardinality(X) >= 1 /\ Cardinality(X) <= MaxMissing}}
    \cup {Partial, Without(Base, RequiredSet)}

\* Channel values around the bounds of VALID_RANGES, in thousandths
Around(c) ==
    {NumV(VALID_RANGES[c][1] * Scale - 1), NumV(VALID_RANGES[c][1] * Scale),
     NumV(VALID_RANGES[c][2] * Scale), NumV(VALID_RANGES[c][2] * Scale + 1)}

MaxDeviations == 2

\* Base with up to MaxDeviations channels set to values around their bounds
RangeRequests ==
    {With(Base, ch) :
        ch \in UNION {{g \in [S -> UNION {Around(c) : c \in S}] :
                          \A c \in S : g[c] \in Around(c)} :
                      S \in {X \in SUBSET Channels :
                                Cardinality(X) >= 1 /\ Cardinality(X) <= MaxDeviations}}}

\* Channel values of three decimals within 0.004 of the bounds of
\* VALID_RANGES, on either side, and NaN
Edge(c) ==
    {NumV(VALID_RANGES[c][1] * Scale - 4), NumV(VALID_RANGES[c][1] * Scale + 4),
     NumV(VALID_RANGES[c][2] * Scale - 4), NumV(VALID_RANGES[c][2] * Scale + 4), NaNV}

\* Base with one channel at such a value
EdgeRequests == UNION {{With(Base, Set1(c, v)) : v \in Edge(c)} : c \in Channels}

\* Values of equipo: empty, whitespace only, surrounded by whitespace, in
\* lower case, with a space inside, and with the letter kra
Equipos ==
    {<<>>, <<" ">>, <<"\t", " ", "\n">>, <<" ", "t", "1", "0", "1">>,
     <<"T", "1", "0", "1", " ">>, <<"t", " ", "1">>, <<"\t", "t", Kra, "\n">>, <<Kra>>}

\* Base with each of these as its equipo
EquipoRequests == {With(Base, Set1("equipo", StrV(e))) : e \in Equipos}

\* Names of fields a reading does not declare, and values for them
ExtraFields == {"created_at", "source", "note"}
ExtraValues == {StrV(<<"x">>), NumV(Scale), NullV}

\* Base with one or more undeclared fields
ExtraRequests ==
    {With(Base, x) : x \in UNION {[S -> ExtraValues] : S \in SUBSET ExtraFields \ {{}}}}

\* Values of timestamp: components that are not zero-padded, '/' separators,
\* two spaces, 'T' and a tab in place of the space, a trailing space, month
\* 13, 30 February, no seconds, hour 24, and a well-formed one
Timestamps ==
    {<<"2", "0", "2", "5", "-", "1", "-", "5", " ", "8", ":", "3", ":", "0">>,
     <<"2", "0", "2", "5", "/", "1", "0", "/", "2", "7", " ", "1", "8", ":", "3", "0", ":", "0", "0">>,
     <<"2", "0", "2", "5", "-", "1", "0", "-", "2", "7", " ", " ", "1", "8", ":", "3", "0", ":", "0", "0">>,
     <<"2", "0", "2", "5", "-", "1", "0", "-", "2", "7", "T", "1", "8", ":", "3", "0", ":", "0", "0">>,
     <<"2", "0", "2", "5", "-", "1", "0", "-", "2", "7", " ", "1", "8", ":", "3", "0", ":", "0", "0", " ">>,
     <<"2", "0", "2", "5", "-", "1", "3", "-", "0", "1", " ", "0", "0", ":", "0", "0", ":", "0", "0">>,
     <<"2", "0", "2", "5", "-", "0", "2", "-", "3", "0", " ", "0", "0", ":", "0", "0", ":", "0", "0">>,
     <<"2", "0", "2", "5", "-", "1", "0", "-", "2", "7", " ", "1", "8", ":", "3", "0">>,
     <<"2", "0", "2", "5", "-", "1", "0", "-", "2", "7", "\t", "1", "8", ":", "3", "0", ":", "0", "0">>,
     <<"2", "0", "2", "5", "-", "1", "0", "-", "2", "7", " ", "2", "4", ":", "0", "0", ":", "0", "0">>,
     <<"2", "0", "2", "5", "-", "1", "0", "-", "2", "8", " ", "1", "8", ":", "3", "0", ":", "0", "0">>}

\* Base with each of these as its timestamp
TimestampRequests == {With(Base, Set1("timestamp", StrV(t))) : t \in Timestamps}

\* Base with one or two channels null, and with one channel null and one
\* other required field absent
NullRequests ==
    {With(Base, [c \in S |-> NullV]) :
        S \in {X \in SUBSET Channels : Cardinality(X) \in {1, 2}}}
    \cup UNION {{Without(With(Base, Set1(c, NullV)), {f}) : f \in RequiredSet \ {c}} :
                   c \in Channels}

\* JSON values that are no number, and JSON values that are no string
NonNumbers == {StrV(<<"1">>), BoolV(TRUE), BoolV(FALSE), NullV, ListV, ObjV}
NonStrings == {NumV(101 * Scale), BoolV(TRUE), NullV, ListV, ObjV}

\* Base with one channel that is no number, or with an equipo or a timestamp
\* that is no string
TypeRequests ==
    {With(Base, Set1(c, v)) : c \in Channels, v \in NonNumbers}
    \cup {With(Base, Set1(f, v)) : f \in {"equipo", "timestamp"}, v \in NonStrings}

\* Base with Pressure null and an earlier channel that is no number
NullMixedRequests ==
    {With(Base, [c \in {"SO2_ppb", "Pressure"} |->
                    IF c = "Pressure" THEN NullV ELSE v]) : v \in NonNumbers}

\* The readings of the single-request specification
WideRequests ==
    MissingRequests \cup RangeRequests \cup TypeRequests \cup EdgeRequests
    \cup EquipoRequests \cup ExtraRequests \cup TimestampRequests \cup NullRequests
    \cup NullMixedRequests

\* The readings of the query specification
QueryRequests == {Variant, Later, Spread30, Spread40}

\* The readings of the failure specification
FaultRequests == {Base, Later, Spread40, Partial}

\* The readings of the paging specification: two of one timestamp, one later
PageRequests == {Variant, Spread30, Later}

\* Bad with a string equipo and a numeric SO2_ppb: the format check and the
\* range check would both refuse it
BadFormat == With(Bad, [equipo |-> StrV(T101), SO2_ppb |-> NumV(25430)])

\* The readings of the stage specification: for each stage a reading that
\* fails there first, and readings that pass every check
StageRequests ==
    {Base, Later, Without(Bad, {"IZS_Temp"}), Bad, BadFormat, TooHigh, Spread40}

\* Every reading of the model
AllRequests ==
    Requests \cup QueryRequests \cup WideRequests \cup FaultRequests \cup PageRequests
    \cup StageRequests

\* validate_reading's local checks and their stages, per reading of the model
Validated == [d \in AllRequests |-> validate_local(d)]

ValidatedStages == [d \in AllRequests |-> LocalStages(d)]

\* clean_reading, per reading of the model
Normalized == [d \in AllRequests |-> clean_reading(d)]

\* The cleaned readings remove_inconsistent_values accepts, per reading of
\* the model
Accepted == [d \in AllRequests |-> {c \in Normalized[d] : remove_inconsistent_values(c)}]

-----------------------------------------------------------------------------
(* State                                                                   *)

Workers == {"w1", "w2"}

VARIABLES
    db_client,    \* main.py's process-wide handle: "connected" or "null"
    collection,   \* the documents of the MongoDB collection, in insertion order
    pc,           \* per request worker: where receive_reading stands
    data,         \* per worker: the request body
    cleaned,      \* per worker: cleaned_data
    resp,         \* per worker: the response of the finished request
    held,         \* per worker: the collection held the request's pair on arrival
    inserted,     \* per worker: the request added a document
    stages,       \* per worker: the pipeline stages the request ran, in order
    calls,        \* per worker: the request's calls of the store and their results
    qpc,          \* where get_readings stands
    qargs,        \* the query parameters
    total_count,  \* get_readings: total_count
    readings,     \* get_readings: readings
    qresp,        \* the response of the finished query
    qseen,        \* the collection sizes the query's two reads saw
    qprev         \* the query answered before the current one, if any

vars == <<db_client, collection, pc, data, cleaned, resp, held, inserted, stages,
          calls, qpc, qargs, total_count, readings, qresp, qseen, qprev>>

ingestVars == <<pc, data, cleaned, resp, held, inserted, stages, calls>>

queryVars == <<qpc, qargs, total_count, readings, qresp, qseen, qprev>>

\* No query has been answered before
NoQuery == [answered |-> FALSE, args |-> <<>>, readings |-> <<>>, seen |-> <<0, 0>>]

NoData == [f \in {} |-> NullV]

NoDoc == <<>>

-----------------------------------------------------------------------------
(* database.py: the collection                                             *)

\* Mutant: the unique index also covers a channel
IndexKey_WithChannel(doc) == <<doc.equipo, doc.timestamp, doc.ch["SO2_ppb"]>>

\* The unique index on (equipo, timestamp)
IndexKey(doc) == <<doc.equipo, doc.timestamp>>

Docs(coll) == {coll[i] : i \in 1..Len(coll)}

\* collection.count_documents({"equipo": equipo, "timestamp": timestamp}) > 0
is_duplicate(coll, equipo, timestamp) ==
    Cardinality({i \in 1..Len(coll) :
                    coll[i].equipo = equipo /\ coll[i].timestamp = timestamp}) > 0

\* Mutant: the collection has no unique index
DuplicateKey_NoIndex(coll, doc) == FALSE

\* insert_one under the unique index raises DuplicateKeyError
DuplicateKey(coll, doc) == \E d \in Docs(coll) : IndexKey(d) = IndexKey(doc)

\* Mutant: the insert replaces the collection's latest document
insert_one_Replace(coll, doc) ==
    IF coll = <<>> THEN <<doc>> ELSE [coll EXCEPT ![Len(coll)] = doc]

\* insert_one: the collection after a successful insert
insert_one(coll, doc) == Append(coll, doc)

\* The pair a reading is stored under (defined when both fields are strings)
HasKey(d) == /\ {"equipo", "timestamp"} \subseteq DOMAIN d
             /\ IsStr(d["equipo"]) /\ IsStr(d["timestamp"])

KeyOf(d) == <<Upper(Strip(d["equipo"].s)), d["timestamp"].s>>

Holds(coll, d) == HasKey(d) /\ \E x \in Docs(coll) : IndexKey(x) = KeyOf(d)

-----------------------------------------------------------------------------
(* database.py: get_readings                                               *)

\* An optional string parameter: None, or a string
None == [given |-> FALSE, s |-> <<>>]
Some(s) == [given |-> TRUE, s |-> s]

\* Python truth of an Optional[str]: None and "" are false
Truthy(opt) == opt.given /\ opt.s # <<>>

\* Mutant: end_date is ignored
Matches_NoEnd(doc, args) ==
    /\ Truthy(args.equipo) => doc.equipo = args.equipo.s
    /\ Truthy(args.start_date) => StrLeq(args.start_date.s, doc.timestamp)

\* The filter get_readings builds: a constraint per truthy parameter
Matches(doc, args) ==
    /\ Truthy(args.equipo) => doc.equipo = args.equipo.s
    /\ Truthy(args.start_date) => StrLeq(args.start_date.s, doc.timestamp)
    /\ Truthy(args.end_date) => StrLeq(doc.timestamp, args.end_date.s)

Matching(coll, args) == {i \in 1..Len(coll) : Matches(coll[i], args)}

\* collection.count_documents(query)
count_documents(coll, args) == Cardinality(Matching(coll, args))

\* The orders find(query).sort("timestamp", -1) may return the matching
\* documents in: timestamps descending, documents of equal timestamp in any order
SortedOrders(coll, args) ==
    LET M == Matching(coll, args)
        n == Cardinality(M)
    IN {o \in [1..n -> M] :
           /\ \A i, j \in 1..n : i # j => o[i] # o[j]
           /\ \A i \in 1..(n - 1) :
                 StrLeq(coll[o[i + 1]].timestamp, coll[o[i]].timestamp)}

\* Mutant: the offset is ignored
Page_NoSkip(coll, order, limit, offset) ==
    [i \in 1..(IF limit < Len(order) THEN limit ELSE Len(order)) |-> coll[order[i]]]

\* .skip(offset).limit(limit) of an order
Page(coll, order, limit, offset) ==
    LET n == Len(order)
        hi == IF offset + limit < n THEN offset + limit ELSE n
    IN [i \in 1..(IF hi > offset THEN hi - offset ELSE 0) |-> coll[order[offset + i]]]

-----------------------------------------------------------------------------
(* main.py: receive_reading                                                *)

Init ==
    /\ db_client = "connected"
    /\ collection = <<>>
    /\ pc = [w \in Workers |-> "idle"]
    /\ data = [w \in Workers |-> NoData]
    /\ cleaned = [w \in Workers |-> NoDoc]
    /\ resp = [w \in Workers |-> NoResponse]
    /\ held = [w \in Workers |-> FALSE]
    /\ inserted = [w \in Workers |-> FALSE]
    /\ stages = [w \in Workers |-> <<>>]
    /\ calls = [w \in Workers |-> <<>>]
    /\ qpc = "idle"
    /\ qargs = [equipo |-> None, start_date |-> None, end_date |-> None,
                limit |-> 1, offset |-> 0]
    /\ total_count = 0
    /\ readings = <<>>
    /\ qresp = [code |-> 0, count |-> 0, total |-> 0]
    /\ qseen = <<0, 0>>
    /\ qprev = NoQuery

\* receive_reading without its `if db_client is None` check
Receive_NoHandleCheck(w, pool) ==
    /\ pc[w] \in {"idle", "done"}
    /\ \E d \in pool :
          /\ data' = [data EXCEPT ![w] = d]
          /\ held' = [held EXCEPT ![w] = Holds(collection, d)]
          /\ stages' = [stages EXCEPT ![w] = ValidatedStages[d]]
          /\ resp' = [resp EXCEPT ![w] = Validated[d]]
          /\ pc' = [pc EXCEPT ![w] =
                       IF Validated[d] # NoResponse THEN "done" ELSE "lookup"]
    /\ cleaned' = [cleaned EXCEPT ![w] = NoDoc]
    /\ inserted' = [inserted EXCEPT ![w] = FALSE]
    /\ calls' = [calls EXCEPT ![w] = <<>>]
    /\ UNCHANGED <<db_client, collection, queryVars>>

\* A request arrives with a body of `pool`; the handle is set, and
\* validate_reading runs its checks up to the duplicate check
Receive(w, pool) ==
    /\ pc[w] \in {"idle", "done"}
    /\ db_client = "connected"
    /\ \E d \in pool :
          /\ data' = [data EXCEPT ![w] = d]
          /\ held' = [held EXCEPT ![w] = Holds(collection, d)]
          /\ stages' = [stages EXCEPT ![w] = ValidatedStages[d]]
          /\ resp' = [resp EXCEPT ![w] = Validated[d]]
          /\ pc' = [pc EXCEPT ![w] =
                       IF Validated[d] # NoResponse THEN "done" ELSE "lookup"]
    /\ cleaned' = [cleaned EXCEPT ![w] = NoDoc]
    /\ inserted' = [inserted EXCEPT ![w] = FALSE]
    /\ calls' = [calls EXCEPT ![w] = <<>>]
    /\ UNCHANGED <<db_client, collection, queryVars>>

\* The answer FastAPI gives to a body that is no JSON object
Unprocessable == Response(422, "Unprocessable", <<>>, <<>>)

\* receive_reading(data: Dict): a body that is no JSON object is refused by the
\* framework before the handler runs, whatever the handle is
ReceiveMalformed(w) ==
    /\ pc[w] \in {"idle", "done"}
    /\ data' = [data EXCEPT ![w] = NoData]
    /\ held' = [held EXCEPT ![w] = FALSE]
    /\ stages' = [stages EXCEPT ![w] = <<>>]
    /\ resp' = [resp EXCEPT ![w] = Unprocessable]
    /\ pc' = [pc EXCEPT ![w] = "done"]
    /\ cleaned' = [cleaned EXCEPT ![w] = NoDoc]
    /\ inserted' = [inserted EXCEPT ![w] = FALSE]
    /\ calls' = [calls EXCEPT ![w] = <<>>]
    /\ UNCHANGED <<db_client, collection, queryVars>>

\* validate_reading: check_duplicate(data.get('equipo'), data.get('timestamp'))
Lookup(w) ==
    /\ pc[w] = "lookup"
    /\ stages' = [stages EXCEPT ![w] = Append(@, "exists")]
    /\ IF is_duplicate(collection, data[w]["equipo"].s, data[w]["timestamp"].s)
       THEN /\ resp' = [resp EXCEPT ![w] = Rejected("Duplicate reading detected")]
            /\ pc' = [pc EXCEPT ![w] = "done"]
       ELSE /\ pc' = [pc EXCEPT ![w] = "insert"]
            /\ UNCHANGED resp
    /\ calls' = [calls EXCEPT ![w] =
                     Append(@, <<"exists",
                                 IF is_duplicate(collection, data[w]["equipo"].s,
                                                 data[w]["timestamp"].s)
                                 THEN "found" ELSE "absent">>)]
    /\ UNCHANGED <<db_client, collection, data, cleaned, held, inserted, queryVars>>

\* clean_reading and remove_inconsistent_values, then
\* db_client.insert_reading(cleaned_data): insert_one under the unique index
Insert(w) ==
    /\ pc[w] = "insert"
    /\ pc' = [pc EXCEPT ![w] = "done"]
    /\ IF Normalized[data[w]] = {}
       THEN /\ resp' = [resp EXCEPT ![w] = Rejected("Data cleaning failed")]
            /\ stages' = [stages EXCEPT ![w] = Append(@, "normalize")]
            /\ UNCHANGED <<cleaned, collection, inserted, calls>>
       ELSE LET doc == CHOOSE c \in Normalized[data[w]] : TRUE
            IN /\ cleaned' = [cleaned EXCEPT ![w] = doc]
               /\ IF doc \notin Accepted[data[w]]
                  THEN /\ resp' = [resp EXCEPT ![w] =
                                      Rejected("Inconsistent values detected")]
                       /\ stages' = [stages EXCEPT ![w] =
                                        @ \o <<"normalize", "consistency">>]
                       /\ UNCHANGED <<collection, inserted, calls>>
                  ELSE /\ stages' = [stages EXCEPT ![w] =
                                        @ \o <<"normalize", "consistency", "insert">>]
                       /\ IF DuplicateKey(collection, doc)
                          THEN /\ resp' = [resp EXCEPT ![w] =
                                              Rejected("Duplicate reading detected")]
                               /\ calls' = [calls EXCEPT ![w] =
                                                Append(@, <<"insert", "duplicate">>)]
                               /\ UNCHANGED <<collection, inserted>>
                          ELSE /\ collection' = insert_one(collection, doc)
                               /\ calls' = [calls EXCEPT ![w] =
                                                Append(@, <<"insert", "inserted">>)]
                               /\ inserted' = [inserted EXCEPT ![w] = TRUE]
                               /\ resp' = [resp EXCEPT ![w] = Stored]
    /\ UNCHANGED <<db_client, data, held, queryVars>>

Next ==
    \E w \in Workers :
        \/ Receive(w, Requests)
        \/ Lookup(w)
        \/ Insert(w)

Spec == Init /\ [][Next]_vars

-----------------------------------------------------------------------------
(* main.py: get_readings                                                   *)

MaxLimit == 2

MaxOffset == 1

Filter(equipo, start_date, end_date) ==
    [equipo |-> equipo, start_date |-> start_date, end_date |-> end_date]

\* The filters of the model: by equipo, by dates, by both; a parameter is
\* absent, empty or a string
Filters ==
    {Filter(e, None, None) :
        e \in {None, Some(<<>>), Some(T101), Some(<<"t", "1", "0", "1">>)}}
    \cup {Filter(None, Some(TS2), None), Filter(None, None, Some(TS1)),
          Filter(None, Some(<<>>), Some(<<>>)),
          Filter(Some(T101), Some(TS1), Some(TS1))}

\* The query parameters of the model, each limit and offset within the
\* bounds FastAPI's Query(...) declarations accept
QueryArgs ==
    {[equipo |-> f.equipo, start_date |-> f.start_date, end_date |-> f.end_date,
      limit |-> l, offset |-> o] :
        f \in Filters, l \in 1..MaxLimit, o \in 0..MaxOffset}

QueryResponse(code, count, total) == [code |-> code, count |-> count, total |-> total]

\* limit: int = Query(100, ge=1, le=1000)
MaxPageLimit == 1000

\* The bounds of limit without the upper one
LegalPage_NoUpper(a) == a.limit >= 1 /\ a.offset >= 0

\* limit: Query(ge=1, le=1000) and offset: Query(ge=0)
LegalPage(a) == a.limit >= 1 /\ a.limit <= MaxPageLimit /\ a.offset >= 0

\* get_readings up to db_client.get_readings' count_documents
QueryCount(pool) ==
    /\ qpc = "idle"
    /\ db_client = "connected"
    /\ \E a \in pool :
          /\ LegalPage(a)
          /\ qargs' = a
          /\ total_count' = count_documents(collection, a)
    /\ qseen' = <<Len(collection), 0>>
    /\ readings' = <<>>
    /\ qresp' = QueryResponse(0, 0, 0)
    /\ qpc' = "counted"
    /\ UNCHANGED <<db_client, collection, ingestVars, qprev>>

\* find(query).sort("timestamp", -1).skip(offset).limit(limit) and the response
QueryFind ==
    /\ qpc = "counted"
    /\ \E o \in SortedOrders(collection, qargs) :
          /\ readings' = Page(collection, o, qargs.limit, qargs.offset)
          /\ qresp' = QueryResponse(200, Len(Page(collection, o, qargs.limit, qargs.offset)),
                                    total_count)
    /\ qseen' = <<qseen[1], Len(collection)>>
    /\ qpc' = "done"
    /\ UNCHANGED <<db_client, collection, ingestVars, qargs, total_count, qprev>>

\* get_readings with a limit or an offset outside the declared bounds: the
\* framework answers 422 before the handler runs, whatever the handle is, and
\* db_client.get_readings is not called
QueryInvalid(pool) ==
    /\ qpc = "idle"
    /\ \E a \in pool :
          /\ ~LegalPage(a)
          /\ qargs' = a
    /\ qresp' = QueryResponse(422, 0, 0)
    /\ qpc' = "done"
    /\ UNCHANGED <<db_client, collection, ingestVars, total_count, readings, qseen, qprev>>

NextQuery ==
    \/ Receive("w1", QueryRequests)
    \/ Lookup("w1")
    \/ Insert("w1")
    \/ QueryCount(QueryArgs)
    \/ QueryFind

SpecQuery == Init /\ [][NextQuery]_vars

-----------------------------------------------------------------------------
(* main.py: get_readings, one request after another                        *)

\* A second get_readings request arrives after the first was answered:
\* the first answer is kept, and the request runs up to count_documents
QueryAgain(pool) ==
    /\ qpc = "done" /\ qresp.code = 200
    /\ ~qprev.answered
    /\ db_client = "connected"
    /\ qprev' = [answered |-> TRUE, args |-> qargs, readings |-> readings, seen |-> qseen]
    /\ \E a \in pool :
          /\ LegalPage(a)
          /\ qargs' = a
          /\ total_count' = count_documents(collection, a)
    /\ qseen' = <<Len(collection), 0>>
    /\ readings' = <<>>
    /\ qresp' = QueryResponse(0, 0, 0)
    /\ qpc' = "counted"
    /\ UNCHANGED <<db_client, collection, ingestVars>>

\* Unfiltered pages of each limit, the first and the one that follows it
PageArgs ==
    {[equipo |-> None, start_date |-> None, end_date |-> None,
      limit |-> l, offset |-> o] : l \in 1..MaxLimit, o \in 0..MaxLimit}

\* The collections the ingestion of PageRequests leaves: its documents, each
\* at most once, in any order of arrival
PageStores ==
    LET docs == UNION {Normalized[d] : d \in PageRequests}
    IN UNION {{c \in [1..n -> docs] : \A i, j \in 1..n : i # j => c[i] # c[j]} :
                 n \in 0..Cardinality(docs)}

\* The service after some of PageRequests were stored, no request running
InitPages ==
    /\ db_client = "connected"
    /\ collection \in PageStores
    /\ pc = [w \in Workers |-> "idle"]
    /\ data = [w \in Workers |-> NoData]
    /\ cleaned = [w \in Workers |-> NoDoc]
    /\ resp = [w \in Workers |-> NoResponse]
    /\ held = [w \in Workers |-> FALSE]
    /\ inserted = [w \in Workers |-> FALSE]
    /\ stages = [w \in Workers |-> <<>>]
    /\ calls = [w \in Workers |-> <<>>]
    /\ qpc = "idle"
    /\ qargs = [equipo |-> None, start_date |-> None, end_date |-> None,
                limit |-> 1, offset |-> 0]
    /\ total_count = 0
    /\ readings = <<>>
    /\ qresp = QueryResponse(0, 0, 0)
    /\ qseen = <<0, 0>>
    /\ qprev = NoQuery

\* The page parameters as a client may send them: those of PageArgs, the
\* largest legal limit, and values beyond each declared bound
RawPageArgs ==
    PageArgs \cup
    {[equipo |-> None, start_date |-> None, end_date |-> None, limit |-> l, offset |-> o] :
        l \in {0, 1, MaxPageLimit, MaxPageLimit + 1}, o \in {-1, 0}}

NextPages ==
    \/ QueryCount(RawPageArgs)
    \/ QueryFind
    \/ QueryAgain(PageArgs)
    \/ QueryInvalid(RawPageArgs)

SpecPages == InitPages /\ [][NextPages]_vars

-----------------------------------------------------------------------------
(* One request from a wide family of bodies, on a fresh collection         *)

NextWide ==
    \/ pc["w1"] = "idle" /\ Receive("w1", WideRequests)
    \/ Lookup("w1")
    \/ Insert("w1")

SpecWide == Init /\ [][NextWide]_vars

-----------------------------------------------------------------------------
(* Failures: the handle is null after a failed start-up, and the store     *)
(* raises on a read or an insert                                           *)

\* The module-level MongoDBClient() either connects or leaves db_client None
InitFault ==
    /\ db_client \in {"connected", "null"}
    /\ collection = <<>>
    /\ pc = [w \in Workers |-> "idle"]
    /\ data = [w \in Workers |-> NoData]
    /\ cleaned = [w \in Workers |-> NoDoc]
    /\ resp = [w \in Workers |-> NoResponse]
    /\ held = [w \in Workers |-> FALSE]
    /\ inserted = [w \in Workers |-> FALSE]
    /\ stages = [w \in Workers |-> <<>>]
    /\ calls = [w \in Workers |-> <<>>]
    /\ qpc = "idle"
    /\ qargs = [equipo |-> None, start_date |-> None, end_date |-> None,
                limit |-> 1, offset |-> 0]
    /\ total_count = 0
    /\ readings = <<>>
    /\ qresp = QueryResponse(0, 0, 0)
    /\ qseen = <<0, 0>>
    /\ qprev = NoQuery

\* receive_reading with db_client None: 500 before anything else runs
ReceiveUnavailable(w, pool) ==
    /\ pc[w] \in {"idle", "done"}
    /\ db_client = "null"
    /\ \E d \in pool : data' = [data EXCEPT ![w] = d]
    /\ resp' = [resp EXCEPT ![w] = ServerError("Database connection unavailable")]
    /\ pc' = [pc EXCEPT ![w] = "done"]
    /\ stages' = [stages EXCEPT ![w] = <<>>]
    /\ held' = [held EXCEPT ![w] = FALSE]
    /\ cleaned' = [cleaned EXCEPT ![w] = NoDoc]
    /\ inserted' = [inserted EXCEPT ![w] = FALSE]
    /\ calls' = [calls EXCEPT ![w] = <<>>]
    /\ UNCHANGED <<db_client, collection, queryVars>>

\* is_duplicate's count_documents raises: the handler's except Exception
\* answers 500
\* Mutant: the failed lookup is reported as a duplicate
LookupFails_AsDuplicate(w) ==
    /\ pc[w] = "lookup"
    /\ stages' = [stages EXCEPT ![w] = Append(@, "exists")]
    /\ resp' = [resp EXCEPT ![w] = Rejected("Duplicate reading detected")]
    /\ pc' = [pc EXCEPT ![w] = "done"]
    /\ calls' = [calls EXCEPT ![w] = Append(@, <<"exists", "raised">>)]
    /\ UNCHANGED <<db_client, collection, data, cleaned, held, inserted, queryVars>>

LookupFails(w) ==
    /\ pc[w] = "lookup"
    /\ stages' = [stages EXCEPT ![w] = Append(@, "exists")]
    /\ resp' = [resp EXCEPT ![w] =
                    ServerError("Internal server error while processing reading")]
    /\ pc' = [pc EXCEPT ![w] = "done"]
    /\ calls' = [calls EXCEPT ![w] = Append(@, <<"exists", "raised">>)]
    /\ UNCHANGED <<db_client, collection, data, cleaned, held, inserted, queryVars>>

\* insert_one raises something other than DuplicateKeyError: insert_reading
\* re-raises and the handler answers 500. The failed insert wrote nothing.
\* Mutant: the failed insert is tried a second time
InsertFails_Retry(w) ==
    /\ pc[w] = "insert"
    /\ Normalized[data[w]] # {}
    /\ Accepted[data[w]] = Normalized[data[w]]
    /\ cleaned' = [cleaned EXCEPT ![w] = CHOOSE c \in Normalized[data[w]] : TRUE]
    /\ stages' = [stages EXCEPT ![w] = @ \o <<"normalize", "consistency", "insert">>]
    /\ resp' = [resp EXCEPT ![w] =
                    ServerError("Internal server error while processing reading")]
    /\ pc' = [pc EXCEPT ![w] = "done"]
    /\ calls' = [calls EXCEPT ![w] =
                     @ \o <<(<<"insert", "raised">>), (<<"insert", "raised">>)>>]
    /\ UNCHANGED <<db_client, collection, data, held, inserted, queryVars>>

InsertFails(w) ==
    /\ pc[w] = "insert"
    /\ Normalized[data[w]] # {}
    /\ Accepted[data[w]] = Normalized[data[w]]
    /\ cleaned' = [cleaned EXCEPT ![w] = CHOOSE c \in Normalized[data[w]] : TRUE]
    /\ stages' = [stages EXCEPT ![w] = @ \o <<"normalize", "consistency", "insert">>]
    /\ resp' = [resp EXCEPT ![w] =
                    ServerError("Internal server error while processing reading")]
    /\ pc' = [pc EXCEPT ![w] = "done"]
    /\ calls' = [calls EXCEPT ![w] = Append(@, <<"insert", "raised">>)]
    /\ UNCHANGED <<db_client, collection, data, held, inserted, queryVars>>

\* get_readings with db_client None
QueryUnavailable(pool) ==
    /\ qpc = "idle"
    /\ db_client = "null"
    /\ \E a \in pool : LegalPage(a) /\ qargs' = a
    /\ qresp' = QueryResponse(500, 0, 0)
    /\ qpc' = "done"
    /\ UNCHANGED <<db_client, collection, ingestVars, total_count, readings, qseen, qprev>>

\* count_documents or find raises: db_client.get_readings re-raises and the
\* handler answers 500
QueryFails(pool) ==
    /\ db_client = "connected"
    /\ \/ qpc = "idle" /\ \E a \in pool : LegalPage(a) /\ qargs' = a
       \/ qpc = "counted" /\ UNCHANGED qargs
    /\ qresp' = QueryResponse(500, 0, 0)
    /\ qpc' = "done"
    /\ UNCHANGED <<db_client, collection, ingestVars, total_count, readings, qseen, qprev>>

\* The queries of the failure specification: one within the declared bounds,
\* and one beyond each bound
FaultQueryArgs ==
    {[equipo |-> None, start_date |-> None, end_date |-> None, limit |-> l, offset |-> o] :
        l \in {0, 1, MaxPageLimit + 1}, o \in {0}}
    \cup {[equipo |-> None, start_date |-> None, end_date |-> None, limit |-> 1, offset |-> -1]}

NextFault ==
    \/ \E w \in Workers :
          \/ Receive(w, FaultRequests)
          \/ ReceiveUnavailable(w, FaultRequests)
          \/ ReceiveMalformed(w)
          \/ Lookup(w)
          \/ LookupFails(w)
          \/ Insert(w)
          \/ InsertFails(w)
    \/ QueryCount(FaultQueryArgs)
    \/ QueryFind
    \/ QueryUnavailable(FaultQueryArgs)
    \/ QueryFails(FaultQueryArgs)
    \/ QueryInvalid(FaultQueryArgs)

SpecFault == InitFault /\ [][NextFault]_vars

-----------------------------------------------------------------------------
(* Two workers, a handle that may be null, a store that may raise; each    *)
(* request that has started is run to completion                           *)

\* The steps of worker w's request after its arrival
Proceed(w) == Lookup(w) \/ LookupFails(w) \/ Insert(w) \/ InsertFails(w)

NextStages ==
    \E w \in Workers :
        \/ Receive(w, StageRequests)
        \/ ReceiveUnavailable(w, StageRequests)
        \/ ReceiveMalformed(w)
        \/ Lookup(w)
        \/ LookupFails(w)
        \/ Insert(w)
        \/ InsertFails(w)

\* The handler is a coroutine that runs to its return or its raise
SpecStages ==
    InitFault /\ [][NextStages]_vars /\ \A w \in Workers : WF_vars(Proceed(w))

-----------------------------------------------------------------------------
(* Properties                                                              *)

Done(w) == pc[w] = "done"

Ran(w, stage) == \E i \in 1..Len(stages[w]) : stages[w][i] = stage

Duplicate == Rejected("Duplicate reading detected")

\* A reading that only a duplicate can stop: it passes the local validation,
\* normalization and the temperature check
OtherwiseValid(d) ==
    /\ Validated[d] = NoResponse
    /\ Normalized[d] # {}
    /\ Accepted[d] = Normalized[d]

\* C1: no two stored readings have the same (equipo, timestamp) pair.
C1_UniquePair ==
    \A i, j \in 1..Len(collection) :
        i # j => ~(/\ collection[i].equipo = collection[j].equipo
                   /\ collection[i].timestamp = collection[j].timestamp)

\* C1 witness: two readings are stored and the index has refused an insert
C1_Witness ==
    /\ Len(collection) >= 2
    /\ \E w \in Workers : Done(w) /\ Ran(w, "insert") /\ resp[w] = Duplicate

\* Two finished requests for one pair that both arrived before it was stored
Raced(a, b) ==
    /\ a # b /\ Done(a) /\ Done(b)
    /\ OtherwiseValid(data[a]) /\ OtherwiseValid(data[b])
    /\ KeyOf(data[a]) = KeyOf(data[b])
    /\ ~held[a] /\ ~held[b]

\* C2: of two concurrent, otherwise valid requests for one pair the store does
\* not hold, exactly one ends Stored and the other ends rejected as a
\* duplicate, and the stored request's reading is in the store.
C2_ExactlyOneStored ==
    \A a, b \in Workers :
        Raced(a, b) =>
            \/ /\ resp[a] = Stored /\ resp[b] = Duplicate
               /\ Normalized[data[a]] \subseteq Docs(collection)
            \/ /\ resp[b] = Stored /\ resp[a] = Duplicate
               /\ Normalized[data[b]] \subseteq Docs(collection)

\* C2 witness: both requests passed the exists lookup and the insert of one
\* was refused
C2_Witness ==
    \E a, b \in Workers :
        /\ Raced(a, b)
        /\ Ran(a, "insert") /\ Ran(b, "insert")
        /\ resp[a] = Stored /\ resp[b] = Duplicate

\* C3: an otherwise valid request for a pair the store already holds ends
\* rejected as a duplicate (400) and adds nothing, also when its equipo
\* differs from the stored one in case or surrounding whitespace.
C3_ResubmitRejected ==
    \A w \in Workers :
        (Done(w) /\ held[w] /\ OtherwiseValid(data[w])) =>
            resp[w] = Duplicate /\ ~inserted[w]

\* C3 witness: a resubmission whose raw equipo is not the stored one passed
\* the exists lookup and was refused by the insert
C3_Witness ==
    \E w \in Workers :
        /\ Done(w) /\ held[w] /\ OtherwiseValid(data[w])
        /\ data[w]["equipo"].s # KeyOf(data[w])[1]
        /\ Ran(w, "insert") /\ resp[w] = Duplicate

\* The largest and the smallest of a set of numbers
Max(S) == CHOOSE x \in S : \A y \in S : y <= x
Min(S) == CHOOSE x \in S : \A y \in S : x <= y

\* Largest minus smallest of the numbers of S (0 when S holds none)
Spread(S) == IF S \ {NaN} = {} THEN 0 ELSE Max(S \ {NaN}) - Min(S \ {NaN})

\* The spread of the five temperature channels of a request as submitted
SubmittedSpread(d) == Spread({Float(d[f]) : f \in TempFields})

\* The spread of the five temperature channels rounded to 2 decimals
RoundedSpread(d) == Spread({Round2(Float(d[f])) : f \in TempFields})

StoredSpread(doc) == Spread({doc.ch[f] : f \in TempFields})

\* A finished request that passed validate_reading (duplicate check included)
PassedValidation(w) == Done(w) /\ Ran(w, "normalize")

Inconsistent == Rejected("Inconsistent values detected")

\* C7: a validated request whose temperatures as submitted are more than 30
\* apart is rejected as inconsistent and nothing is stored; every stored
\* reading has a temperature spread of at most 30.
C7_SubmittedSpreadRejected ==
    /\ \A w \in Workers :
          (PassedValidation(w) /\ SubmittedSpread(data[w]) > 30 * Scale) =>
              resp[w] = Inconsistent /\ ~inserted[w]
    /\ \A doc \in Docs(collection) : StoredSpread(doc) <= 30 * Scale

\* The request of the single-request specification has been answered
Answered == Done("w1")

\* The required fields a body lacks
Absent(d) == RequiredSet \ DOMAIN d

\* The elements a sequence lists
Listed(seq) == {seq[i] : i \in 1..Len(seq)}

\* A structurally valid, well-formatted reading: every required field
\* present, channels numbers, equipo a non-blank string, timestamp a date
WellFormed(d) ==
    /\ Absent(d) = {}
    /\ \A c \in Channels : d[c].k = "num"
    /\ d["equipo"].k = "str" /\ Strip(d["equipo"].s) # <<>>
    /\ d["timestamp"].k = "str" /\ strptime(d["timestamp"].s) # {}

\* The channels of a reading strictly outside their Range Table bounds
Violations(d) ==
    {c \in Channels : \/ d[c].n < VALID_RANGES[c][1] * Scale
                      \/ d[c].n > VALID_RANGES[c][2] * Scale}

\* C5 as claimed: a well-formed request with one or more channels strictly
\* outside their bounds (negative values of the channels whose minimum is 0
\* included) is answered 400 "Values out of range" with a message listing
\* exactly the violating channels, each with its value and bounds, and
\* nothing is stored.
C5_OutOfRangeListsEvery ==
    (Answered /\ WellFormed(data["w1"]) /\ Violations(data["w1"]) # {}) =>
        /\ resp["w1"].code = 400
        /\ resp["w1"].kind = "Values out of range"
        /\ Len(resp["w1"].ranges) = Cardinality(Violations(data["w1"]))
        /\ \A c \in Violations(data["w1"]) :
              <<c, data["w1"][c].n, VALID_RANGES[c][1], VALID_RANGES[c][2]>>
                  \in Listed(resp["w1"].ranges)
        /\ collection = <<>>

\* C6: a request whose body lacks one or more of the 14 required fields is
\* answered 400 with one "Missing required fields" message that lists exactly
\* the absent fields, each once, whatever the present fields hold, and
\* nothing is stored.
C6_MissingListsExactlyAbsent ==
    (data["w1"] # NoData /\ Absent(data["w1"]) # {}) =>
        /\ Answered
        /\ resp["w1"].code = 400
        /\ resp["w1"].kind = "Missing required fields"
        /\ Listed(resp["w1"].fields) = Absent(data["w1"])
        /\ Len(resp["w1"].fields) = Cardinality(Absent(data["w1"]))
        /\ resp["w1"].ranges = <<>>
        /\ ~inserted["w1"] /\ collection = <<>>

\* C6 witness: two fields are absent, not the first of the list, and the
\* present fields are of refused types and values
C6_Witness ==
    /\ Answered
    /\ Cardinality(Absent(data["w1"])) = 2
    /\ "equipo" \in DOMAIN data["w1"] /\ data["w1"]["equipo"].k # "str"
    /\ resp["w1"].kind = "Missing required fields"

\* Worker w's request ends in this step
Ends(w) == pc[w] # "done" /\ pc'[w] = "done"

\* The step leaves every stored document in place and unchanged
Kept ==
    /\ Len(collection') >= Len(collection)
    /\ SubSeq(collection', 1, Len(collection)) = collection

\* One step of the service against the frame of C8
FrameStep ==
    /\ Kept
    /\ Len(collection') <= Len(collection) + 1
    /\ collection' # collection =>
          \E w \in Workers : Ends(w) /\ resp'[w] = Stored /\ inserted'[w]
    /\ \A w \in Workers :
          Ends(w) =>
              IF resp'[w] = Stored
              THEN /\ collection' = Append(collection, cleaned'[w])
                   /\ inserted'[w]
              ELSE /\ collection' = collection
                   /\ ~inserted'[w]
                   /\ resp'[w].code \in {400, 422, 500}

Consistent(d) ==
    \/ RoundedSpread(d) < 30 * Scale
    \/ /\ RoundedSpread(d) = 30 * Scale
       /\ (Min({Round2(Float(d[f])) : f \in TempFields}) \div 10) \notin FloatDiffAbove30

\* A valid reading in the sense of C4: well-formed, every channel in range
Valid(d) == WellFormed(d) /\ Violations(d) = {}

\* The stored row is the request's reading: equipo trimmed and upper-cased,
\* the timestamp as submitted, every channel the nearest hundredth
RowOf(row, d) ==
    /\ row.equipo = Upper(Strip(d["equipo"].s))
    /\ row.timestamp = d["timestamp"].s
    /\ \A c \in Channels :
          /\ row.ch[c] % 10 = 0
          /\ row.ch[c] - d[c].n <= 5 /\ d[c].n - row.ch[c] <= 5

\* The finished query asked for one equipo only, from the first row, with a
\* limit that covers every match, and began after the request had ended
QueriedAfter(equipo) ==
    /\ qpc = "done" /\ qresp.code = 200
    /\ qargs.equipo = Some(equipo)
    /\ ~Truthy(qargs.start_date) /\ ~Truthy(qargs.end_date)
    /\ qargs.offset = 0 /\ total_count <= qargs.limit
    /\ \E i \in 1..qseen[1] : collection[i] = cleaned["w1"]

\* The rows of the page stored under the pair of reading d
RowsFor(d) ==
    {i \in 1..Len(readings) : /\ readings[i].equipo = Upper(Strip(d["equipo"].s))
                              /\ readings[i].timestamp = d["timestamp"].s}

\* C4 as claimed: a valid reading with a fresh pair is stored.
C4_ValidFreshStored ==
    (Answered /\ Valid(data["w1"]) /\ ~held["w1"]) => resp["w1"] = Stored

\* C4 amended: a valid reading with a fresh pair whose rounded temperatures
\* pass the consistency check is stored, and a later query by its trimmed,
\* upper-cased equipo alone (offset 0, limit covering the matches) returns
\* exactly one row for its pair: equipo trimmed and upper-cased, channels
\* rounded to 2 decimals.
C4_ConsistentFreshStoredAndFound ==
    (Answered /\ Valid(data["w1"]) /\ Consistent(data["w1"]) /\ ~held["w1"]) =>
        /\ resp["w1"] = Stored
        /\ \E i \in 1..Len(collection) : collection[i] = cleaned["w1"]
        /\ RowOf(cleaned["w1"], data["w1"])
        /\ QueriedAfter(Upper(Strip(data["w1"]["equipo"].s))) =>
              /\ Cardinality(RowsFor(data["w1"])) = 1
              /\ \A i \in RowsFor(data["w1"]) : RowOf(readings[i], data["w1"])
              /\ \A i \in 1..Len(readings) :
                    readings[i].equipo = Upper(Strip(data["w1"]["equipo"].s))

\* C4 witness: a reading submitted as " t101" with three-decimal channels is
\* stored next to another equipo's, and the later query by "T101" returns it
C4_Witness ==
    /\ Answered /\ Valid(data["w1"]) /\ Consistent(data["w1"]) /\ ~held["w1"]
    /\ data["w1"]["equipo"].s # Upper(Strip(data["w1"]["equipo"].s))
    /\ \E c \in Channels : data["w1"][c].n % 10 # 0
    /\ QueriedAfter(Upper(Strip(data["w1"]["equipo"].s)))
    /\ Len(readings) < qseen[2]
    /\ Cardinality(RowsFor(data["w1"])) = 1

\* The collection as the query's count and as its find read it
AtCount == SubSeq(collection, 1, qseen[1])
AtFind == SubSeq(collection, 1, qseen[2])

\* The query has been answered with its page
Paged == qpc = "done" /\ qresp.code = 200

\* No insert fell between the query's count and its find
NoWriteBetween == qseen[1] = qseen[2]

\* C9: with no write between its two reads, a query with limit L and offset
\* O over a collection of which M documents match returns exactly
\* min(L, max(0, M - O)) rows, at most L, and reports count = that number and
\* total = M.
C9_PageSize ==
    (Paged /\ NoWriteBetween) =>
        LET M == count_documents(AtFind, qargs)
            rest == IF M > qargs.offset THEN M - qargs.offset ELSE 0
        IN /\ Len(readings) = (IF qargs.limit < rest THEN qargs.limit ELSE rest)
           /\ Len(readings) <= qargs.limit
           /\ qresp.count = Len(readings)
           /\ qresp.total = M

\* C9 witness: three documents match, the query skips one and returns two
C9_Witness ==
    /\ Paged /\ NoWriteBetween
    /\ count_documents(AtFind, qargs) = 3
    /\ qargs.offset = 1 /\ qargs.limit = 2
    /\ Len(readings) = 2 /\ qresp.total = 3

\* A document satisfies the filter when every given parameter constrains it
SatisfiesGiven(doc, a) ==
    /\ a.equipo.given => doc.equipo = a.equipo.s
    /\ a.start_date.given => StrLeq(a.start_date.s, doc.timestamp)
    /\ a.end_date.given => StrLeq(doc.timestamp, a.end_date.s)

\* A document satisfies the filter when every given, non-empty parameter
\* constrains it
SatisfiesNonEmpty(doc, a) ==
    /\ (a.equipo.given /\ a.equipo.s # <<>>) => doc.equipo = a.equipo.s
    /\ (a.start_date.given /\ a.start_date.s # <<>>) =>
           StrLeq(a.start_date.s, doc.timestamp)
    /\ (a.end_date.given /\ a.end_date.s # <<>>) =>
           StrLeq(doc.timestamp, a.end_date.s)

\* C10 as claimed: each returned row satisfies every given parameter, a
\* filter no stored document satisfies yields an empty page, and total
\* counts the stored documents that satisfy every given parameter.
C10_GivenFilter ==
    Paged =>
        /\ \A i \in 1..Len(readings) : SatisfiesGiven(readings[i], qargs)
        /\ (\A j \in 1..Len(AtFind) : ~SatisfiesGiven(AtFind[j], qargs)) =>
              readings = <<>> /\ qresp.count = 0
        /\ qresp.total =
              Cardinality({j \in 1..Len(AtCount) : SatisfiesGiven(AtCount[j], qargs)})

\* C10 amended: the same with a parameter given as the empty string treated
\* as not given: equipo exact (no trimming, no case folding), the timestamp
\* string between start_date and end_date inclusive.
C10_NonEmptyFilter ==
    Paged =>
        /\ \A i \in 1..Len(readings) :
              /\ SatisfiesNonEmpty(readings[i], qargs)
              /\ \E j \in 1..Len(AtFind) : AtFind[j] = readings[i]
        /\ (\A j \in 1..Len(AtFind) : ~SatisfiesNonEmpty(AtFind[j], qargs)) =>
              readings = <<>> /\ qresp.count = 0
        /\ qresp.total =
              Cardinality({j \in 1..Len(AtCount) : SatisfiesNonEmpty(AtCount[j], qargs)})

\* C10 witness: a query by equipo and both date bounds, each bound equal to a
\* stored timestamp, returns a row while other stored documents are left out
C10_Witness ==
    /\ Paged
    /\ qargs.equipo.given /\ qargs.equipo.s # <<>>
    /\ qargs.start_date.given /\ qargs.end_date.given
    /\ Len(readings) = 1 /\ readings[1].timestamp = qargs.end_date.s
    /\ qresp.total = 1 /\ qseen[1] = 3

\* Two queries were answered one after the other with the same filter and
\* limit, and the collection was the same at each of their reads
Repeated ==
    /\ Paged /\ qprev.answered
    /\ qprev.args.equipo = qargs.equipo
    /\ qprev.args.start_date = qargs.start_date
    /\ qprev.args.end_date = qargs.end_date
    /\ qprev.args.limit = qargs.limit
    /\ qprev.seen = <<Len(collection), Len(collection)>>
    /\ qseen = <<Len(collection), Len(collection)>>

\* The timestamps of a page never increase
Descending(page) ==
    \A i \in 1..(Len(page) - 1) : StrLeq(page[i + 1].timestamp, page[i].timestamp)

\* C11 as claimed: a page is sorted by timestamp descending, at most
\* `offset` stored matching rows are newer than its first row, the same query
\* over the unchanged collection returns the same page, and the pages at
\* offset 0 and at offset limit share no row and, when they cover the
\* matches, hold every matching row.
C11_StablePages ==
    /\ Paged =>
          /\ Descending(readings)
          /\ readings # <<>> =>
                Cardinality({i \in Matching(AtFind, qargs) :
                                StrLess(readings[1].timestamp, AtFind[i].timestamp)})
                    <= qargs.offset
    /\ Repeated =>
          /\ qprev.args.offset = qargs.offset => qprev.readings = readings
          /\ (qprev.args.offset = 0 /\ qargs.offset = qargs.limit) =>
                /\ Listed(qprev.readings) \cap Listed(readings) = {}
                /\ total_count <= 2 * qargs.limit =>
                      Listed(qprev.readings) \cup Listed(readings)
                          = {collection[i] : i \in Matching(collection, qargs)}

\* The answer of both handlers to a null handle
Unavailable == ServerError("Database connection unavailable")

\* The handle is null, and nothing of the store or of the pipeline has run:
\* no stage, no document built, no insert, no read of the collection
Untouched ==
    /\ collection = <<>>
    /\ qseen = <<0, 0>>
    /\ qpc # "counted"
    /\ \A w \in Workers :
          /\ pc[w] \in {"idle", "done"}
          /\ stages[w] = <<>>
          /\ cleaned[w] = NoDoc
          /\ ~inserted[w]

\* C12 as stated: with a null handle every ingestion request and every query
\* request is answered 500, whatever its body or parameters
C12_NullHandleAlways500 ==
    db_client = "null" =>
        /\ \A w \in Workers : Done(w) => resp[w].code = 500
        /\ qpc = "done" => qresp.code = 500

\* C12 amended: with a null handle, an ingestion request whose body is a JSON
\* object and a query request whose limit and offset are within their
\* declared bounds are answered 500 "Database connection unavailable", any
\* other request is answered 422, and in no case does a validation stage,
\* the normalization or a store operation run
C12_NullHandleFailsFast ==
    db_client = "null" =>
        /\ Untouched
        /\ \A w \in Workers :
              Done(w) => resp[w] = (IF resp[w] = Unprocessable THEN Unprocessable
                                                              ELSE Unavailable)
        /\ \A w \in Workers :
              (Done(w) /\ data[w] # NoData) => resp[w] = Unavailable
        /\ qpc = "done" =>
              qresp = QueryResponse(IF LegalPage(qargs) THEN 500 ELSE 422, 0, 0)

\* With a null handle, one request was answered 500 for a body that is
\* otherwise storable, another 422, a query within bounds 500
C12_Witness ==
    /\ db_client = "null"
    /\ Done("w1") /\ data["w1"] = Base /\ resp["w1"] = Unavailable
    /\ Done("w2") /\ resp["w2"] = Unprocessable
    /\ qpc = "done" /\ LegalPage(qargs) /\ qresp.code = 500

\* The limit and the offset are within the bounds the specification gives
InBounds(a) == a.limit \in 1..1000 /\ a.offset >= 0

\* db_client.get_readings has been called for the current request
Delegated == qpc = "counted" \/ Paged

\* C13 as stated: a query whose limit or offset is out of bounds is clamped
\* and answered with a result bundle
C13_ClampsAndDelegates ==
    (qpc = "done" /\ ~InBounds(qargs)) => qresp.code = 200

\* C13 amended: a query whose limit is outside [1,1000] or whose offset is
\* negative is answered 422 with no result bundle and without a call of
\* db_client.get_readings; get_readings of the store is only ever called with
\* a limit in 1..1000 and an offset >= 0
C13_OutOfBoundsRefused ==
    /\ (qpc = "done" /\ ~InBounds(qargs)) =>
          /\ qresp = QueryResponse(422, 0, 0)
          /\ readings = <<>>
          /\ qseen = <<0, 0>>
    /\ Delegated => InBounds(qargs)

\* A query with limit 1001 has been refused over a collection that holds
\* readings
C13_Witness ==
    /\ qpc = "done" /\ qargs.limit = 1001 /\ qargs.offset = 0
    /\ qresp.code = 422
    /\ Len(collection) >= 2

\* The value is a JSON number
IsNumber(v) == v.k = "num"

\* Every required field is present, and some channel is no number or equipo
\* or timestamp is no string
IllTyped(d) ==
    /\ RequiredSet \subseteq DOMAIN d
    /\ \/ \E c \in Channels : ~IsNumber(d[c])
       \/ ~IsStr(d["equipo"])
       \/ ~IsStr(d["timestamp"])

\* The rejection names a type: "Field 'f' must be numeric" or "must be a string"
TypeMismatch(r) == r.code = 400 /\ r.kind \in {"must be numeric", "must be a string"}

\* C14: a reading with every required field in which a channel is no number,
\* or equipo or timestamp no string, is rejected 400 with a type reason and
\* nothing is stored
C14_IllTypedRejected ==
    (Answered /\ IllTyped(data["w1"])) =>
        TypeMismatch(resp["w1"]) /\ collection = <<>>

\* The stored value is a number within the bounds of its channel
WithinRange(c, v) ==
    /\ v # NaN
    /\ VALID_RANGES[c][1] * Scale <= v
    /\ v <= VALID_RANGES[c][2] * Scale

\* C15: every stored reading has each of the 12 channels, as stored (rounded
\* to 2 decimals), a number within the inclusive bounds of its range
C15_StoredWithinRange ==
    \A doc \in Docs(collection) : \A c \in Channels : WithinRange(c, doc.ch[c])

\* The character is a lower-case letter
IsLower(c) == IsIn(LowerCase, c) \/ c = Kra

\* The string is not empty and neither starts nor ends with whitespace
Trimmed(s) == s # <<>> /\ s[1] \notin Whitespace /\ s[Len(s)] \notin Whitespace

\* The string is empty or holds only whitespace
Blank(s) == \A i \in 1..Len(s) : s[i] \in Whitespace

\* A request whose equipo is a blank string is never stored
BlankNeverStored ==
    (Answered /\ "equipo" \in DOMAIN data["w1"] /\ IsStr(data["w1"]["equipo"])
              /\ Blank(data["w1"]["equipo"].s)) =>
        resp["w1"].code = 400 /\ collection = <<>>

\* C16 as stated: every stored equipo is non-empty, trimmed and without any
\* lower-case letter; a blank equipo is never stored
C16_NoLowerCaseLetter ==
    /\ \A doc \in Docs(collection) :
          Trimmed(doc.equipo) /\ \A i \in 1..Len(doc.equipo) : ~IsLower(doc.equipo[i])
    /\ BlankNeverStored

\* C16 amended: every stored equipo is non-empty, trimmed and without any
\* lower-case letter that has an upper-case form (none of a..z); a blank
\* equipo is never stored
C16_TrimmedUpperCased ==
    /\ \A doc \in Docs(collection) :
          /\ Trimmed(doc.equipo)
          /\ \A i \in 1..Len(doc.equipo) : ~IsIn(LowerCase, doc.equipo[i])
    /\ BlankNeverStored

\* A reading submitted with equipo "\tt<kra>\n" is stored with equipo "T<kra>"
C16_Witness ==
    /\ Answered /\ resp["w1"] = Stored
    /\ data["w1"]["equipo"].s = <<"\t", "t", Kra, "\n">>
    /\ Len(collection) = 1 /\ collection[1].equipo = <<"T", Kra>>

\* The fields of a body that a reading does not declare
Extras(d) == DOMAIN d \ RequiredSet

\* The fields of a stored record
Canonical == {"equipo", "timestamp", "timestamp_dt", "ch", "created_at", "source"}

\* C17: a reading that is valid apart from undeclared fields is answered and
\* stored exactly as the reading without them: the record has only the
\* canonical fields, and created_at and source are the values the system
\* sets, also when the caller supplies fields of these names
C17_ExtrasIgnored ==
    (Answered /\ Extras(data["w1"]) # {}
              /\ OtherwiseValid(Without(data["w1"], Extras(data["w1"])))) =>
        /\ resp["w1"] = Stored
        /\ Docs(collection) = Normalized[Without(data["w1"], Extras(data["w1"]))]
        /\ \A doc \in Docs(collection) :
              /\ DOMAIN doc = Canonical
              /\ DOMAIN doc.ch = Channels
              /\ doc.created_at = "utcnow"
              /\ doc.source = "CR310"

\* A reading that supplies created_at, source and a further field is stored
C17_Witness ==
    /\ Answered /\ resp["w1"] = Stored
    /\ Extras(data["w1"]) = {"created_at", "source", "note"}
    /\ Len(collection) = 1

\* The string has the form YYYY-MM-DD HH:MM:SS: 19 characters, digits but for
\* '-' at 5 and 8, a space at 11 and ':' at 14 and 17
ExactPattern(s) ==
    /\ Len(s) = 19
    /\ \A i \in 1..19 :
          CASE i \in {5, 8} -> s[i] = "-"
            [] i = 11 -> s[i] = " "
            [] i \in {14, 17} -> s[i] = ":"
            [] OTHER -> IsDigit(s[i])

\* The rejection of a reading CR310Reading refuses
InvalidFormat(r) == r.code = 400 /\ r.kind = "Validation error"

\* C18: a reading whose timestamp is not of the exact pattern
\* YYYY-MM-DD HH:MM:SS, or whose equipo is blank, is rejected 400 by the
\* format check and not stored; every stored timestamp has the zero-padded
\* 19-character form
C18_ExactPatternOnly ==
    /\ (Answered /\ Ran("w1", "format")
                 /\ \/ ~ExactPattern(data["w1"]["timestamp"].s)
                    \/ Blank(data["w1"]["equipo"].s)) =>
          InvalidFormat(resp["w1"]) /\ collection = <<>>
    /\ \A doc \in Docs(collection) : ExactPattern(doc.timestamp)

\* The channels of a body whose value is null
Nulls(d) == {c \in Channels \cap DOMAIN d : d[c] = NullV}

\* The rejection of the handler's branch for a failed clean_reading
NullValue == Rejected("Data cleaning failed")

\* Every stored record holds a number for each of the 12 channels
Complete == \A doc \in Docs(collection) :
                DOMAIN doc.ch = Channels /\ \A c \in Channels : doc.ch[c] \in Int

StageOrder == <<"required", "types", "format", "ranges", "exists", "normalize",
                "consistency", "insert">>

IsPrefix(s, t) == Len(s) <= Len(t) /\ s = SubSeq(t, 1, Len(s))

\* The first of the four local checks that refuses a body, "none" if none does
FirstFailing ==
    [d \in StageRequests |->
        IF missing_fields(d) # <<>> THEN "required"
        ELSE IF type_errors(d) # <<>> THEN "types"
        ELSE IF model_errors(d) # <<>> THEN "format"
        ELSE IF out_of_range(CR310Reading(d)) # <<>> THEN "ranges"
        ELSE "none"]

\* The reasons with which a stage rejects
Reasons(stage) ==
    CASE stage = "required" -> {"Missing required fields"}
      [] stage = "types" -> {"must be numeric", "must be a string"}
      [] stage = "format" -> {"Validation error"}
      [] stage = "ranges" -> {"Values out of range"}
      [] stage = "exists" -> {"Duplicate reading detected"}
      [] stage = "normalize" -> {"Data cleaning failed"}
      [] stage = "consistency" -> {"Inconsistent values detected"}
      [] stage = "insert" -> {"Duplicate reading detected"}

\* The stages run so far are the first stages of the order; a request under
\* way has passed them; a finished one has exactly one outcome, a rejection
\* carries the reason of the last stage run, which is the first failing one,
\* and Stored comes only after every stage
StagesInOrder ==
    \A w \in Workers :
        /\ IsPrefix(stages[w], StageOrder)
        /\ pc[w] = "lookup" => stages[w] = SubSeq(StageOrder, 1, 4)
        /\ pc[w] = "insert" => stages[w] = SubSeq(StageOrder, 1, 5)
        /\ Done(w) =>
              /\ resp[w].code \in {200, 400, 422, 500}
              /\ resp[w].code = 200 => resp[w] = Stored /\ stages[w] = StageOrder /\ inserted[w]
              /\ inserted[w] => resp[w] = Stored
              /\ resp[w].code = 400 =>
                    /\ stages[w] # <<>>
                    /\ resp[w].kind \in Reasons(stages[w][Len(stages[w])])
                    /\ Len(stages[w]) <= 4 =>
                          stages[w][Len(stages[w])] = FirstFailing[data[w]]
              /\ resp[w].code = 422 => stages[w] = <<>>

\* While a request is under way its stages only grow, one after the other
StagesGrow ==
    \A w \in Workers :
        pc[w] \in {"lookup", "insert"} =>
            IsPrefix(stages[w], stages'[w])

\* C20: every ingestion runs the stages in the order required, types, format,
\* ranges, exists, normalize, consistency, insert and never returns to an
\* earlier one; the first failing stage gives the rejection its reason and no
\* later stage runs; every request that has started ends, with exactly one
\* outcome, and Stored only after every stage has passed
C20_StagedPipeline ==
    /\ []StagesInOrder
    /\ [][StagesGrow]_vars
    /\ \A w \in Workers : (pc[w] \in {"lookup", "insert"}) ~> Done(w)

\* One request has been stored after every stage, the other was rejected by
\* the format check, which the range check would have refused as well
C20_Witness ==
    /\ Done("w1") /\ resp["w1"] = Stored /\ stages["w1"] = StageOrder
    /\ Done("w2") /\ data["w2"] = BadFormat
    /\ resp["w2"].kind = "Validation error" /\ stages["w2"] = SubSeq(StageOrder, 1, 3)

\* ---- C21: the store calls of one ingestion request ----

IsExists(c) == c[1] = "exists"

IsInsert(c) == c[1] = "insert"

\* The request's calls of is_duplicate, and of insert_reading
ExistsCalls(w) == SelectSeq(calls[w], IsExists)

InsertCalls(w) == SelectSeq(calls[w], IsInsert)

\* The body passes the required-field, type, format and range checks
PassesLocalChecks(d) == d \in AllRequests /\ Validated[d] = NoResponse

\* Normalization yields a document and the consistency check keeps it
CleansConsistently(d) ==
    d \in AllRequests /\ Normalized[d] # {} /\ Accepted[d] = Normalized[d]

StoreCallsOf(w) ==
    /\ Len(ExistsCalls(w)) <= 1
    /\ Len(InsertCalls(w)) <= 1
    /\ ExistsCalls(w) # <<>> =>
          /\ PassesLocalChecks(data[w])
          /\ IsExists(calls[w][1])
          /\ SubSeq(stages[w], 1, 5) = SubSeq(StageOrder, 1, 5)
    /\ InsertCalls(w) # <<>> =>
          /\ Len(calls[w]) = 2
          /\ calls[w][1] = <<"exists", "absent">>
          /\ IsInsert(calls[w][2])
          /\ CleansConsistently(data[w])
          /\ stages[w] = StageOrder
    /\ ~PassesLocalChecks(data[w]) => calls[w] = <<>>
    /\ resp[w] \in {Unavailable, Unprocessable} => calls[w] = <<>>
    /\ inserted[w] => calls[w][Len(calls[w])] = <<"insert", "inserted">>

\* C21: within one ingestion request the exists lookup is called at most
\* once and only after the required-field, type, format and range checks
\* all passed; insert is called at most once, only after exists returned
\* false and normalization and the consistency check succeeded; a request
\* that fails a local check (or is refused for a null handle or a body that
\* is no object) calls the store not at all
C21_StoreCalls == \A w \in Workers : StoreCallsOf(w)

\* One request called exists and then insert, once each, and was stored;
\* the other failed the format check and was answered without a store call
C21_Witness ==
    /\ Done("w1") /\ resp["w1"] = Stored
    /\ calls["w1"] = <<(<<"exists", "absent">>), (<<"insert", "inserted">>)>>
    /\ Done("w2") /\ data["w2"] = BadFormat /\ resp["w2"].code = 400
    /\ calls["w2"] = <<>>

\* ---- C22: a query concurrent with ingestion ----

\* The committed states of the store up to now: the collection only grows,
\* by one document per insert_one
CommittedStates == {SubSeq(collection, 1, n) : n \in 0..Len(collection)}

\* The answered page and total are those of the one state snap
FromState(snap) ==
    /\ qresp.total = count_documents(snap, qargs)
    /\ \E o \in SortedOrders(snap, qargs) :
          readings = Page(snap, o, qargs.limit, qargs.offset)

\* C22 as claimed: the page and the total of an answered query are both
\* computed from one single committed state of the store; count never
\* exceeds total, and with offset 0 and limit >= total the page holds
\* exactly total rows.
C22_OneSnapshot ==
    Paged =>
        /\ \E snap \in CommittedStates : FromState(snap)
        /\ qresp.count <= qresp.total
        /\ (qargs.offset = 0 /\ qargs.limit >= qresp.total) =>
              Len(readings) = qresp.total

\* ---- C23: validation rejections are 400, store failures are 500 ----

\* The reasons of a validation rejection
ValidationReasons ==
    {"Missing required fields", "must be numeric", "must be a string",
     "Validation error", "Values out of range", "Duplicate reading detected",
     "Data cleaning failed", "Inconsistent values detected"}

\* The result of the request's last store call, "none" without a call
LastCall(w) == IF calls[w] = <<>> THEN "none" ELSE calls[w][Len(calls[w])][2]

\* A call of the store raised (no duplicate-key conflict, which insert_reading
\* turns into False)
StoreFailed(w) == LastCall(w) = "raised"

InternalError == ServerError("Internal server error while processing reading")

RejectionsAndFailures(w) ==
    Done(w) =>
        \* a local check refused the body
        /\ (stages[w] # <<>> /\ Validated[data[w]] # NoResponse) =>
              resp[w] = Validated[data[w]] /\ resp[w].code = 400
        \* the lookup found the pair, or the index refused the insert
        /\ LastCall(w) \in {"found", "duplicate"} => resp[w] = Duplicate
        \* normalization or the consistency check refused the reading
        /\ (Ran(w, "normalize") /\ Normalized[data[w]] = {}) =>
              resp[w] = Rejected("Data cleaning failed")
        /\ (Ran(w, "consistency") /\ Accepted[data[w]] # Normalized[data[w]]) =>
              resp[w] = Inconsistent
        \* one reason per rejection, and none for a failure of the store
        /\ resp[w].code = 400 =>
              /\ resp[w].kind \in ValidationReasons
              /\ ~StoreFailed(w)
        \* a failed lookup or insert is a 500, neither a rejection nor a success
        /\ StoreFailed(w) =>
              /\ resp[w] = InternalError
              /\ resp[w].code = 500
              /\ ~inserted[w]
        /\ resp[w].code = 200 => LastCall(w) = "inserted"
        /\ resp[w].code = 500 => StoreFailed(w) \/ resp[w] = Unavailable

====
